---- MODULE Spec2Model ----
(***************************************************************************)
(* Model of the two transcript utilities of the repository:                *)
(*   regenerate_valid_docx.py  - the converter (plaintext -> container)    *)
(*   build_nvivo_aggregate.py  - the aggregator (containers -> one text)   *)
(*                                                                         *)
(* Text is a sequence of one-character strings.  A file on disk is a       *)
(* sequence of bytes (also strings); the UTF-8 codec between the two is    *)
(* modelled by Encode / DecodeReplace / ValidUtf8.  A document container   *)
(* is kept structured (its paragraphs and runs); read as raw bytes it      *)
(* shows the ZIP signature followed by binary payload.                     *)
(***************************************************************************)
EXTENDS Naturals, Sequences, FiniteSets

VARIABLES
    \* ---- converter (regenerate_valid_docx.py) ----
    fs,         \* source path -> file content
    bak,        \* source path -> backup sidecar (<path>.orig.txt)
    force,      \* args.force of the run in progress
    idx,        \* position of the for loop of main in the sorted file list
    converted,  \* the counter of main
    lastRet,    \* what the last call of convert_plaintext_to_docx returned
    cpc,        \* "idle" between runs, "loop" inside main's for loop
    runs,       \* converter runs started so far
    fs0,        \* history: fs when the first run started
    bak0,       \* history: bak when the first run started
    snapFs,     \* history: fs when the run in progress started
    snapBak,    \* history: bak when the run in progress started
    \* ---- line transform of the converter, alone ----
    ltext,      \* a decoded plaintext
    lparas,     \* the paragraphs built from it
    ldone,
    \* ---- aggregator (build_nvivo_aggregate.py) ----
    globList,   \* what ROOT.glob yields, in the order the file system gives
    docAvail,   \* Document is not None (python-docx could be imported)
    transcripts,\* result of iter_transcript_paths
    aidx,       \* position of the for loop of build_aggregate
    entries,    \* the list entries
    acq,        \* history: what was read for each transcript
    aggregate,  \* the aggregate written at the end
    apc,        \* "start", "loop", "written", "nofiles", "raised"
    \* ---- extract_text_from_docx, alone ----
    xdoc,       \* paragraphs of the container read
    xout,       \* the text returned
    xdone

convVars == <<fs, bak, force, idx, converted, lastRet, cpc, runs, fs0, bak0,
              snapFs, snapBak>>
lineVars == <<ltext, lparas, ldone>>
aggVars  == <<globList, docAvail, transcripts, aidx, entries, acq, aggregate, apc>>
extVars  == <<xdoc, xout, xdone>>
vars     == <<convVars, lineVars, aggVars, extVars>>

(***************************************************************************)
(* Bounds of the model.                                                    *)
(***************************************************************************)
MaxBytes    == 2    \* longest raw source file, in bytes
MaxConvRuns == 2    \* converter runs in one behaviour
MaxLineText == 6    \* longest plaintext given to the line transform
MaxGlob     == 2    \* most files the glob of the aggregator yields
MaxDocRuns  == 3    \* most runs in a container given to the extractor
MaxDocParas == 2    \* most paragraphs in a container given to the extractor

(***************************************************************************)
(* Python str helpers.                                                     *)
(***************************************************************************)
IsLineBreak(c) == c \in {"\n", "\r"}
IsSpace(c)     == c \in {" ", "\n", "\r"}

RECURSIVE SplitAcc(_, _, _)
SplitAcc(s, cur, acc) ==
    IF s = <<>> THEN (IF cur = <<>> THEN acc ELSE Append(acc, cur))
    ELSE IF s[1] = "\r" /\ Len(s) >= 2 /\ s[2] = "\n"
         THEN SplitAcc(Tail(Tail(s)), <<>>, Append(acc, cur))
    ELSE IF IsLineBreak(s[1])
         THEN SplitAcc(Tail(s), <<>>, Append(acc, cur))
    ELSE SplitAcc(Tail(s), Append(cur, s[1]), acc)

\* str.splitlines()
SplitLines(s) == SplitAcc(s, <<>>, <<>>)

RECURSIVE LStrip(_)
LStrip(s) == IF s /= <<>> /\ IsSpace(s[1]) THEN LStrip(Tail(s)) ELSE s

RECURSIVE RStrip(_)
RStrip(s) ==
    IF s /= <<>> /\ IsSpace(s[Len(s)]) THEN RStrip(SubSeq(s, 1, Len(s) - 1)) ELSE s

\* str.strip()
Strip(s) == RStrip(LStrip(s))

RECURSIVE RStripCR(_)
\* str.rstrip('\r')
RStripCR(s) ==
    IF s /= <<>> /\ s[Len(s)] = "\r" THEN RStripCR(SubSeq(s, 1, Len(s) - 1)) ELSE s

\* '**' in line
HasMarker(line) ==
    \E i \in 1..(Len(line) - 1) : line[i] = "*" /\ line[i + 1] = "*"

RECURSIVE RemoveMarkers(_)
\* line.replace('**', ''): non-overlapping occurrences, left to right
RemoveMarkers(s) ==
    IF Len(s) < 2 THEN s
    ELSE IF s[1] = "*" /\ s[2] = "*" THEN RemoveMarkers(Tail(Tail(s)))
    ELSE <<s[1]>> \o RemoveMarkers(Tail(s))

RECURSIVE JoinLines(_)
\* "\n".join(lines)
JoinLines(lines) ==
    IF lines = <<>> THEN <<>>
    ELSE IF Len(lines) = 1 THEN lines[1]
    ELSE lines[1] \o <<"\n">> \o JoinLines(Tail(lines))

RECURSIVE SeqsUpTo(_, _)
\* all sequences over S of length at most n
SeqsUpTo(S, n) ==
    IF n = 0 THEN {<<>>}
    ELSE LET shorter == SeqsUpTo(S, n - 1)
         IN  shorter \cup {Append(s, c) : s \in shorter, c \in S}

(***************************************************************************)
(* UTF-8.  ASCII bytes are their own characters; "xFF" is a byte that      *)
(* occurs in no UTF-8 encoding; U+FFFD ("uFFFD") is encoded in the three   *)
(* bytes EF BF BD.                                                         *)
(***************************************************************************)
ReplacementChar == "uFFFD"
HighBytes == {"xFF", "xEF", "xBF", "xBD"}

RECURSIVE Encode(_)
\* str -> bytes, encoding='utf-8'
Encode(t) ==
    IF t = <<>> THEN <<>>
    ELSE IF t[1] = ReplacementChar THEN <<"xEF", "xBF", "xBD">> \o Encode(Tail(t))
    ELSE <<t[1]>> \o Encode(Tail(t))

IsFFFD(b) == Len(b) >= 3 /\ b[1] = "xEF" /\ b[2] = "xBF" /\ b[3] = "xBD"

RECURSIVE ValidUtf8(_)
ValidUtf8(b) ==
    IF b = <<>> THEN TRUE
    ELSE IF IsFFFD(b) THEN ValidUtf8(SubSeq(b, 4, Len(b)))
    ELSE b[1] \notin HighBytes /\ ValidUtf8(Tail(b))

RECURSIVE DecodeReplace(_)
\* bytes -> str, encoding='utf-8', errors='replace'
DecodeReplace(b) ==
    IF b = <<>> THEN <<>>
    ELSE IF IsFFFD(b) THEN <<ReplacementChar>> \o DecodeReplace(SubSeq(b, 4, Len(b)))
    ELSE IF b[1] \in HighBytes THEN <<ReplacementChar>> \o DecodeReplace(Tail(b))
    ELSE <<b[1]>> \o DecodeReplace(Tail(b))

(***************************************************************************)
(* Documents.                                                              *)
(***************************************************************************)
FontName == "Arial"
FontSize == 12

\* doc.add_paragraph("")
EmptyParagraph == [runs |-> <<>>]

\* p.add_run(text), run.bold left unset (None) or set, then apply_font(p)
StyledRun(text, bold) ==
    [text |-> text, bold |-> bold, font |-> FontName, size |-> FontSize]

\* A file is raw bytes or a container saved by doc.save; the document
\* library is taken by its interface: add_run and save accept every text.
RawFile(b)  == [kind |-> "raw", bytes |-> b, paras |-> <<>>]
DocxFile(p) == [kind |-> "docx", bytes |-> <<>>, paras |-> p]

\* The bytes a container shows when it is read as a plain file: the ZIP
\* local-file signature, then compressed payload (not UTF-8).
ZipBytes == <<"P", "K", "xFF">>

FileBytes(f) == IF f.kind = "docx" THEN ZipBytes ELSE f.bytes

(***************************************************************************)
(* Converter: regenerate_valid_docx.py                                     *)
(***************************************************************************)
Files == {1, 2}          \* the paths iter_transcript_files returns, by rank
NumFiles == Cardinality(Files)

NoBackup       == [exists |-> FALSE, bytes |-> <<>>]
BackupOf(text) == [exists |-> TRUE, bytes |-> Encode(text)]

Signature == <<"P", "K">>

\* f.read(n): the first n bytes, fewer when the file is shorter
ReadBytes(f, n) ==
    LET b == FileBytes(f)
    IN  SubSeq(b, 1, IF Len(b) < n THEN Len(b) ELSE n)

\* the two bytes read compared with the four-byte ZIP signature
IsValidDocxLongSig(f) == ReadBytes(f, 2) = <<"P", "K", "x03", "x04">>

\* is_valid_docx: f.read(2) == b'PK'
IsValidDocx(f) == ReadBytes(f, 2) = Signature

\* the flag taken the wrong way round
ShouldSkipInverted(f, frc) == IsValidDocx(f) /\ frc

\* line 49: is_valid_docx(src) and not force
ShouldSkip(f, frc) == IsValidDocx(f) /\ ~frc

\* src.read_text(encoding='utf-8', errors='replace'): with errors='replace'
\* no UnicodeDecodeError is raised, whatever the bytes
ReadText(f) == [ok |-> TRUE, text |-> DecodeReplace(FileBytes(f))]

\* the sidecar written on every conversion
WriteBackupAlways(b, text) == BackupOf(text)

\* lines 60-62: if not backup.exists(): backup.write_text(text)
WriteBackup(b, text) == IF ~b.exists THEN BackupOf(text) ELSE b

\* bold decided by a single star
LineToParagraphOneStar(raw_line) ==
    LET line == RStripCR(raw_line)
    IN  IF Strip(line) = <<>> THEN EmptyParagraph
        ELSE [runs |-> <<StyledRun(RemoveMarkers(line),
                           IF \E i \in 1..Len(line) : line[i] = "*"
                           THEN "True" ELSE "None")>>]

\* lines 75-85: one paragraph for one line
LineToParagraph(raw_line) ==
    LET line == RStripCR(raw_line)
    IN  IF Strip(line) = <<>> THEN EmptyParagraph
        ELSE [runs |-> <<StyledRun(RemoveMarkers(line),
                           IF HasMarker(line) THEN "True" ELSE "None")>>]

\* lines 74-85: for raw_line in text.splitlines(): ...
ParagraphsOf(text) ==
    LET lines == SplitLines(text)
    IN  [i \in 1..Len(lines) |-> LineToParagraph(lines[i])]

\* convert_plaintext_to_docx(src, force): the file and the sidecar after the
\* call, and the value returned
ConvertPlaintextToDocx(f, b, frc) ==
    IF ShouldSkip(f, frc)
    THEN [file |-> f, backup |-> b, ret |-> FALSE]
    ELSE LET r == ReadText(f)
         IN  IF ~r.ok
             THEN [file |-> f, backup |-> b, ret |-> FALSE]
             ELSE [file   |-> DocxFile(ParagraphsOf(r.text)),
                   backup |-> WriteBackup(b, r.text),
                   ret    |-> TRUE]

\* the bytes of a raw source file: two letters, the marker character and a
\* byte that is not UTF-8
ByteAlphabet == {"P", "K", "*", "xFF"}

\* containers found on disk before any run
InitialDocs ==
    {<<>>, <<[runs |-> <<StyledRun(<<"K">>, "True")>>]>>}

InitialFiles ==
    {RawFile(b) : b \in SeqsUpTo(ByteAlphabet, MaxBytes)}
        \cup {DocxFile(p) : p \in InitialDocs}

\* sidecars found on disk before any run
InitialBackups == {NoBackup, BackupOf(<<"K">>)}

LineIdle ==
    /\ ltext = <<>>
    /\ lparas = <<>>
    /\ ldone = FALSE

AggIdle ==
    /\ globList = <<>>
    /\ docAvail = TRUE
    /\ transcripts = <<>>
    /\ aidx = 0
    /\ entries = <<>>
    /\ acq = <<>>
    /\ aggregate = [blocks |-> <<>>, total |-> 0, ids |-> <<>>]
    /\ apc = "start"

ExtIdle ==
    /\ xdoc = <<>>
    /\ xout = <<>>
    /\ xdone = FALSE

ConvInit ==
    /\ fs \in [Files -> InitialFiles]
    /\ bak \in [Files -> InitialBackups]
    /\ force = FALSE
    /\ idx = 0
    /\ converted = 0
    /\ lastRet = FALSE
    /\ cpc = "idle"
    /\ runs = 0
    /\ fs0 = fs
    /\ bak0 = bak
    /\ snapFs = fs
    /\ snapBak = bak

ConvIdle ==
    /\ fs = [f \in Files |-> RawFile(<<>>)]
    /\ bak = [f \in Files |-> NoBackup]
    /\ force = FALSE
    /\ idx = 0
    /\ converted = 0
    /\ lastRet = FALSE
    /\ cpc = "idle"
    /\ runs = 0
    /\ fs0 = fs
    /\ bak0 = bak
    /\ snapFs = fs
    /\ snapBak = bak

\* main, lines 94-104: parse the flag, list the files, converted = 0
StartRun ==
    /\ cpc = "idle"
    /\ runs < MaxConvRuns
    /\ \E frc \in BOOLEAN : force' = frc
    /\ idx' = 1
    /\ converted' = 0
    /\ cpc' = "loop"
    /\ runs' = runs + 1
    /\ snapFs' = fs
    /\ snapBak' = bak
    /\ UNCHANGED <<fs, bak, lastRet, fs0, bak0>>

\* main, lines 105-107: one iteration of the for loop
ConvertNext ==
    /\ cpc = "loop"
    /\ idx <= NumFiles
    /\ LET r == ConvertPlaintextToDocx(fs[idx], bak[idx], force)
       IN  /\ fs' = [fs EXCEPT ![idx] = r.file]
           /\ bak' = [bak EXCEPT ![idx] = r.backup]
           /\ lastRet' = r.ret
           /\ converted' = IF r.ret THEN converted + 1 ELSE converted
    /\ idx' = idx + 1
    /\ UNCHANGED <<force, cpc, runs, fs0, bak0, snapFs, snapBak>>

\* main, lines 108-109: the loop is over, report and return 0
EndRun ==
    /\ cpc = "loop"
    /\ idx > NumFiles
    /\ cpc' = "idle"
    /\ UNCHANGED <<fs, bak, force, idx, converted, lastRet, runs, fs0, bak0,
                   snapFs, snapBak>>

ConvNext ==
    \/ StartRun /\ UNCHANGED <<lineVars, aggVars, extVars>>
    \/ ConvertNext /\ UNCHANGED <<lineVars, aggVars, extVars>>
    \/ EndRun /\ UNCHANGED <<lineVars, aggVars, extVars>>

InitConv == ConvInit /\ LineIdle /\ AggIdle /\ ExtIdle

SpecConv == InitConv /\ [][ConvNext]_vars

(***************************************************************************)
(* The line transform of the converter on longer texts.                    *)
(***************************************************************************)
TextAlphabet == {"a", "*", " ", "\n", "\r"}

LineInit ==
    /\ ltext \in SeqsUpTo(TextAlphabet, MaxLineText)
    /\ lparas = <<>>
    /\ ldone = FALSE

\* lines 74-85 applied to a decoded text
ApplyLineTransform ==
    /\ ~ldone
    /\ lparas' = ParagraphsOf(ltext)
    /\ ldone' = TRUE
    /\ UNCHANGED ltext

LineNext == ApplyLineTransform /\ UNCHANGED <<convVars, aggVars, extVars>>

InitLines == LineInit /\ ConvIdle /\ AggIdle /\ ExtIdle

SpecLines == InitLines /\ [][LineNext]_vars

(***************************************************************************)
(* extract_text_from_docx                                                  *)
(***************************************************************************)
RECURSIVE ConcatRuns(_)
\* para.text: the text of the paragraph's runs, concatenated
ConcatRuns(rs) ==
    IF rs = <<>> THEN <<>> ELSE rs[1].text \o ConcatRuns(Tail(rs))

Wrap(text) == <<"*", "*">> \o text \o <<"*", "*">>

\* every run has to be bold, whitespace runs too
ExtractLineAllRuns(para) ==
    LET text == RStrip(ConcatRuns(para.runs))
    IN  IF text = <<>> THEN <<>>
        ELSE IF para.runs /= <<>>
                /\ \A k \in 1..Len(para.runs) : para.runs[k].bold = "True"
             THEN Wrap(text)
             ELSE text

\* lines 64-72: the line of one paragraph; r.bold is True, False or None
ExtractLine(para) ==
    LET text == RStrip(ConcatRuns(para.runs))
    IN  IF text = <<>> THEN <<>>
        ELSE IF para.runs /= <<>>
                /\ \A k \in 1..Len(para.runs) :
                       Strip(para.runs[k].text) /= <<>> => para.runs[k].bold = "True"
             THEN Wrap(text)
             ELSE text

\* lines 62-72: the list lines
ExtractLines(doc) == [i \in 1..Len(doc) |-> ExtractLine(doc[i])]

\* extract_text_from_docx, Document available
ExtractTextFromDocx(doc) == JoinLines(ExtractLines(doc))

RunTexts == {<<>>, <<" ">>, <<"a">>}
BoldValues == {"True", "False", "None"}
RunSet == {StyledRun(t, b) : t \in RunTexts, b \in BoldValues}

RECURSIVE TotalRuns(_)
TotalRuns(doc) ==
    IF doc = <<>> THEN 0 ELSE Len(doc[1].runs) + TotalRuns(Tail(doc))

ExtInit ==
    /\ xdoc = <<>>
    /\ xout = <<>>
    /\ xdone = FALSE

\* the container on disk gets one more (empty) paragraph
AddParagraph ==
    /\ ~xdone
    /\ Len(xdoc) < MaxDocParas
    /\ xdoc' = Append(xdoc, EmptyParagraph)
    /\ UNCHANGED <<xout, xdone>>

\* the last paragraph of the container on disk gets one more run
AddRun ==
    /\ ~xdone
    /\ xdoc /= <<>>
    /\ TotalRuns(xdoc) < MaxDocRuns
    /\ \E r \in RunSet :
         xdoc' = [xdoc EXCEPT ![Len(xdoc)] =
                      [runs |-> Append(xdoc[Len(xdoc)].runs, r)]]
    /\ UNCHANGED <<xout, xdone>>

\* one call of extract_text_from_docx; xout holds the list lines, the text
\* returned is JoinLines(xout)
ApplyExtract ==
    /\ ~xdone
    /\ xout' = ExtractLines(xdoc)
    /\ xdone' = TRUE
    /\ UNCHANGED xdoc

ExtNext ==
    \/ AddParagraph /\ UNCHANGED <<convVars, lineVars, aggVars>>
    \/ AddRun /\ UNCHANGED <<convVars, lineVars, aggVars>>
    \/ ApplyExtract /\ UNCHANGED <<convVars, lineVars, aggVars>>

InitExtract == ExtInit /\ ConvIdle /\ LineIdle /\ AggIdle

SpecExtract == InitExtract /\ [][ExtNext]_vars

(***************************************************************************)
(* Aggregator: build_nvivo_aggregate.py                                    *)
(*                                                                         *)
(* A file name transcript_PATIENT_<part>.docx is kept as <part>, a         *)
(* sequence of characters.  The fixed pieces of text the code writes       *)
(* ("PATIENT_", "====TRANSCRIPT: ", "====") are single elements of a text. *)
(***************************************************************************)
Digits == {"0", "1", "2", "3", "4", "5", "6", "7", "8", "9"}

DigitValue(c) ==
    CASE c = "0" -> 0 [] c = "1" -> 1 [] c = "2" -> 2 [] c = "3" -> 3
      [] c = "4" -> 4 [] c = "5" -> 5 [] c = "6" -> 6 [] c = "7" -> 7
      [] c = "8" -> 8 [] c = "9" -> 9

\* TRANSCRIPT_PATTERN.search(p.name): the part is three digits, then ".docx"
PatternMatches(part) ==
    Len(part) = 3 /\ \A i \in 1..3 : part[i] \in Digits

\* m.group(1)
PatientId(part) == <<"PATIENT_">> \o part

RECURSIVE IntOf(_)
\* int(digits)
IntOf(ds) ==
    IF ds = <<>> THEN 0
    ELSE 10 * IntOf(SubSeq(ds, 1, Len(ds) - 1)) + DigitValue(ds[Len(ds)])

\* the key of the sort: int(t[0].split('_')[1])
SortKey(t) == IntOf(Tail(t.pid))

RECURSIVE MatchingFiles(_)
\* lines 37-43: the (pid, path) pairs, in glob order
MatchingFiles(names) ==
    IF names = <<>> THEN <<>>
    ELSE IF PatternMatches(names[1])
         THEN <<[pid |-> PatientId(names[1]), path |-> names[1]]>>
                  \o MatchingFiles(Tail(names))
         ELSE MatchingFiles(Tail(names))

RECURSIVE InsertByKey(_, _)
InsertByKey(sorted, t) ==
    IF sorted = <<>> THEN <<t>>
    ELSE IF SortKey(t) < SortKey(sorted[1]) THEN <<t>> \o sorted
    ELSE <<sorted[1]>> \o InsertByKey(Tail(sorted), t)

RECURSIVE SortedByKey(_)
SortedByKey(files) ==
    IF files = <<>> THEN <<>>
    ELSE InsertByKey(SortedByKey(SubSeq(files, 1, Len(files) - 1)), files[Len(files)])

\* the list left in glob order
SortFilesUnsorted(files) == files

\* line 45: files.sort(key=...), a stable sort ascending by the key
SortFiles(files) == SortedByKey(files)

\* iter_transcript_paths
IterTranscriptPaths(names) == SortFiles(MatchingFiles(names))

NoneText == [ok |-> FALSE, text |-> <<>>]
SomeText(t) == [ok |-> TRUE, text |-> t]

\* an empty text taken for no text
ReadFromBackupFalsy(b) ==
    IF b.exists /\ ~b.ioerror /\ ValidUtf8(b.bytes) /\ b.bytes /= <<>>
    THEN SomeText(DecodeReplace(b.bytes))
    ELSE NoneText

\* read_from_backup: the text, or None when the sidecar is missing or
\* read_text raises (strict UTF-8 decoding, or an I/O error)
ReadFromBackup(b) ==
    IF b.exists
    THEN IF ~b.ioerror /\ ValidUtf8(b.bytes)
         THEN SomeText(DecodeReplace(b.bytes))
         ELSE NoneText
    ELSE NoneText

\* line 91
HeaderLine(pid) == <<"====TRANSCRIPT: ">> \o pid \o <<"====">>

\* content.splitlines()[0:3]
FirstThreeLines(content) ==
    LET lines == SplitLines(content)
    IN  SubSeq(lines, 1, IF Len(lines) < 3 THEN Len(lines) ELSE 3)

\* lines 91-94: the entry appended for a transcript
Block(pid, content) ==
    LET header_line == HeaderLine(pid)
        first3 == FirstThreeLines(content)
        withHeader ==
            IF \A k \in 1..Len(first3) : first3[k] /= header_line
            THEN header_line \o <<"\n", "\n">> \o Strip(content) \o <<"\n">>
            ELSE content
    IN  Strip(withHeader) \o <<"\n">>

NamePool ==
    {<<"0", "0", "1">>, <<"0", "0", "2">>, <<"0", "1", "0">>, <<"1", "0", "0">>,
     <<"0", "1">>, <<"x", "0", "1">>}

IsDistinct(q) == \A i, j \in 1..Len(q) : i /= j => q[i] /= q[j]

\* the listings of at most n different names of S, in any order
DistinctSeqs(S, n) == {q \in SeqsUpTo(S, n) : IsDistinct(q)}

SidecarMissing == [exists |-> FALSE, ioerror |-> FALSE, bytes |-> <<>>]
SidecarUnreadable == [exists |-> TRUE, ioerror |-> TRUE, bytes |-> <<>>]
Sidecar(b) == [exists |-> TRUE, ioerror |-> FALSE, bytes |-> b]

\* what the sidecar of a transcript may hold
Sidecars(pid) ==
    {SidecarMissing, SidecarUnreadable, Sidecar(<<"xFF">>), Sidecar(<<>>),
     Sidecar(<<"a">>),
     Sidecar(HeaderLine(pid) \o <<"\n", "a">>),
     Sidecar(<<"a", "\n">> \o HeaderLine(pid)),
     Sidecar(<<" ">> \o HeaderLine(pid) \o <<"\n", "a">>)}

\* what the container of a transcript may hold
Containers ==
    {<<[runs |-> <<StyledRun(<<"a">>, "True")>>]>>,
     <<[runs |-> <<StyledRun(<<"a">>, "None")>>], EmptyParagraph>>}

Unread == <<>>

RECURSIVE PidsOf(_)
PidsOf(ts) == IF ts = <<>> THEN <<>> ELSE <<ts[1].pid>> \o PidsOf(Tail(ts))

AggInit ==
    /\ globList \in DistinctSeqs(NamePool, MaxGlob)
    /\ docAvail \in BOOLEAN
    /\ transcripts = <<>>
    /\ aidx = 0
    /\ entries = <<>>
    /\ acq = <<>>
    /\ aggregate = [blocks |-> <<>>, total |-> 0, ids |-> <<>>]
    /\ apc = "start"

\* build_aggregate, lines 77-81
Discover ==
    /\ apc = "start"
    /\ transcripts' = IterTranscriptPaths(globList)
    /\ apc' = IF transcripts' = <<>> THEN "nofiles" ELSE "loop"
    /\ aidx' = 1
    /\ UNCHANGED <<globList, docAvail, entries, acq, aggregate>>

\* build_aggregate, lines 83-94 with a readable sidecar
AcquireFromBackup ==
    /\ apc = "loop"
    /\ aidx <= Len(transcripts)
    /\ LET pid == transcripts[aidx].pid
       IN  \E b \in Sidecars(pid) :
             LET r == ReadFromBackup(b)
             IN  /\ r.ok
                 /\ entries' = Append(entries, Block(pid, r.text))
                 /\ acq' = Append(acq, [pid |-> pid, backup |-> b, src |-> "backup",
                                        docx |-> Unread, content |-> r.text])
    /\ aidx' = aidx + 1
    /\ UNCHANGED <<globList, docAvail, transcripts, aggregate, apc>>

\* build_aggregate, lines 83-94 when read_from_backup returned None
AcquireFromDocx ==
    /\ apc = "loop"
    /\ aidx <= Len(transcripts)
    /\ docAvail
    /\ LET pid == transcripts[aidx].pid
       IN  \E b \in Sidecars(pid), d \in Containers :
             LET r == ReadFromBackup(b)
                 content == ExtractTextFromDocx(d)
             IN  /\ ~r.ok
                 /\ entries' = Append(entries, Block(pid, content))
                 /\ acq' = Append(acq, [pid |-> pid, backup |-> b, src |-> "docx",
                                        docx |-> d, content |-> content])
    /\ aidx' = aidx + 1
    /\ UNCHANGED <<globList, docAvail, transcripts, aggregate, apc>>

\* lines 59-60 reached from line 88: RuntimeError, build_aggregate is left
ExtractRaises ==
    /\ apc = "loop"
    /\ aidx <= Len(transcripts)
    /\ ~docAvail
    /\ LET pid == transcripts[aidx].pid
       IN  \E b \in Sidecars(pid), d \in Containers :
             /\ ~ReadFromBackup(b).ok
             /\ acq' = Append(acq, [pid |-> pid, backup |-> b, src |-> "docx",
                                    docx |-> d, content |-> <<>>])
    /\ apc' = "raised"
    /\ UNCHANGED <<globList, docAvail, transcripts, aidx, entries, aggregate>>

\* lines 96-108: the footer and the file written ("\n".join(entries), the
\* footer with the count and the identifiers; the timestamp is left out)
WriteAggregate ==
    /\ apc = "loop"
    /\ aidx > Len(transcripts)
    /\ aggregate' = [blocks |-> entries, total |-> Len(transcripts),
                     ids |-> PidsOf(transcripts)]
    /\ apc' = "written"
    /\ UNCHANGED <<globList, docAvail, transcripts, aidx, entries, acq>>

AggNext ==
    \/ Discover /\ UNCHANGED <<convVars, lineVars, extVars>>
    \/ AcquireFromBackup /\ UNCHANGED <<convVars, lineVars, extVars>>
    \/ AcquireFromDocx /\ UNCHANGED <<convVars, lineVars, extVars>>
    \/ ExtractRaises /\ UNCHANGED <<convVars, lineVars, extVars>>
    \/ WriteAggregate /\ UNCHANGED <<convVars, lineVars, extVars>>

InitAgg == AggInit /\ ConvIdle /\ LineIdle /\ ExtIdle

SpecAgg == InitAgg /\ [][AggNext]_vars

(***************************************************************************)
(* Claims about the converter, checked under SpecConv.                     *)
(***************************************************************************)
StartsWithPK(f) ==
    LET b == FileBytes(f)
    IN  Len(b) >= 2 /\ b[1] = "P" /\ b[2] = "K"

\* C1: a backup sidecar that exists is never rewritten: in every step of
\* every run, forced or not, the sidecar of every file that has one keeps its
\* content.
C1_BackupNeverRewritten ==
    [][\A f \in Files : bak[f].exists => bak'[f] = bak[f]]_vars

\* a forced second run has gone over a file whose sidecar an earlier run made
C1_Witness ==
    \E f \in Files :
        /\ ~bak0[f].exists
        /\ bak[f].exists
        /\ snapBak[f].exists
        /\ runs >= 2
        /\ force
        /\ cpc = "loop"
        /\ idx > f
        /\ lastRet

\* C2: after any sequence of completed converter runs over a file that
\* started as mislabeled plaintext (no sidecar yet), the source path holds a
\* container whose paragraphs are the line transform of the text held in the
\* sidecar.
C2_ContainerReflectsBackup ==
    (runs >= 1 /\ cpc = "idle") =>
        \A f \in Files :
            (fs0[f].kind = "raw" /\ ~bak0[f].exists) =>
                /\ fs[f].kind = "docx"
                /\ bak[f].exists
                /\ fs[f].paras = ParagraphsOf(DecodeReplace(bak[f].bytes))

\* C5: a source file whose bytes are not UTF-8 is skipped: the call leaves
\* the file and its sidecar alone, returns False, the count stays, and the
\* loop goes on with the next file.
C5_UndecodableSkipped ==
    [][(cpc = "loop" /\ idx <= NumFiles /\ fs[idx].kind = "raw"
            /\ ~ValidUtf8(fs[idx].bytes))
          => (/\ fs' = fs
              /\ bak' = bak
              /\ lastRet' = FALSE
              /\ converted' = converted
              /\ idx' = idx + 1
              /\ cpc' = "loop")]_vars

\* C6: converting a file whose first two bytes are PK with the force flag
\* unset leaves every file and every sidecar as it was, returns False and
\* does not count the file as converted.
C6_ValidUnforcedUntouched ==
    [][(cpc = "loop" /\ idx <= NumFiles /\ ~force /\ StartsWithPK(fs[idx]))
          => (/\ fs' = fs
              /\ bak' = bak
              /\ lastRet' = FALSE
              /\ converted' = converted)]_vars

\* an unforced run has just gone over a file that starts with PK
C6_Witness ==
    /\ cpc = "loop"
    /\ ~force
    /\ idx = 2
    /\ StartsWithPK(fs[1])
    /\ lastRet = FALSE
    /\ converted = 0

\* C8: a run with the force flag unset that follows another run converts no
\* file and leaves every container and every sidecar as the earlier run left
\* them.
C8_RerunConvertsNothing ==
    (runs >= 2 /\ ~force) =>
        /\ converted = 0
        /\ fs = snapFs
        /\ bak = snapBak

\* an unforced second run is over, after a first run that converted a file
C8_Witness ==
    /\ runs >= 2
    /\ ~force
    /\ cpc = "idle"
    /\ \E f \in Files : fs0[f].kind = "raw" /\ fs[f].kind = "docx"
                         /\ ~bak0[f].exists /\ bak[f].exists

(***************************************************************************)
(* Claim about the line transform, checked under SpecLines.                *)
(***************************************************************************)
IsBlankLine(line) == \A i \in 1..Len(line) : IsSpace(line[i])

RECURSIVE LeadingStars(_)
LeadingStars(s) ==
    IF s /= <<>> /\ s[1] = "*" THEN 1 + LeadingStars(Tail(s)) ELSE 0

RECURSIVE WithoutPairs(_)
\* the line once every ** is taken out: of each stretch of k stars, k mod 2
\* stars are left
WithoutPairs(s) ==
    IF s = <<>> THEN <<>>
    ELSE IF s[1] = "*"
         THEN LET k == LeadingStars(s)
              IN  (IF k % 2 = 1 THEN <<"*">> ELSE <<>>)
                      \o WithoutPairs(SubSeq(s, k + 1, Len(s)))
         ELSE <<s[1]>> \o WithoutPairs(Tail(s))

HasTwoStars(s) == \E i \in 1..Len(s) : LeadingStars(SubSeq(s, i, Len(s))) >= 2

\* C7: converting a plaintext gives one paragraph per input line, in order:
\* an empty paragraph for a blank line; for any other line one run holding
\* the line without its ** markers, bold exactly when the line held **; and
\* no ** is left in any paragraph.
C7_LineTransform ==
    ldone =>
        LET lines == SplitLines(ltext)
        IN  /\ Len(lparas) = Len(lines)
            /\ \A i \in 1..Len(lines) :
                 IF IsBlankLine(lines[i])
                 THEN lparas[i].runs = <<>>
                 ELSE /\ Len(lparas[i].runs) = 1
                      /\ lparas[i].runs[1].text = WithoutPairs(lines[i])
                      /\ (lparas[i].runs[1].bold = "True") <=> HasTwoStars(lines[i])
                      /\ ~HasTwoStars(lparas[i].runs[1].text)

\* a text of a marker line with an odd stretch of stars, an empty line and a
\* plain line has been converted
C7_Witness ==
    /\ ldone
    /\ ltext = <<"*", "*", "*", "\n", "\n", "a">>
    /\ Len(lparas) = 3
    /\ lparas[1].runs[1].bold = "True"
    /\ lparas[1].runs[1].text = <<"*">>
    /\ lparas[2].runs = <<>>
    /\ lparas[3].runs[1].bold = "None"

(***************************************************************************)
(* Claim about extract_text_from_docx, checked under SpecExtract.          *)
(***************************************************************************)
HasNonSpace(t) == \E k \in 1..Len(t) : ~IsSpace(t[k])

TextRuns(para) == {k \in 1..Len(para.runs) : HasNonSpace(para.runs[k].text)}

MarkedBold(para) ==
    /\ TextRuns(para) /= {}
    /\ \A k \in TextRuns(para) : para.runs[k].bold = "True"

\* C10: every paragraph gives one line, in order; a paragraph with no text
\* gives an empty line; the line is the paragraph's text wrapped in ** exactly
\* when the paragraph has a run of non-whitespace text and every such run is
\* bold, and the bare text otherwise.
C10_ExtractLines ==
    xdone =>
        /\ Len(xout) = Len(xdoc)
        /\ \A i \in 1..Len(xdoc) :
             LET text == RStrip(ConcatRuns(xdoc[i].runs))
             IN  /\ MarkedBold(xdoc[i]) => xout[i] = <<"*", "*">> \o text \o <<"*", "*">>
                 /\ ~MarkedBold(xdoc[i]) => xout[i] = text
                 /\ xdoc[i].runs = <<>> => xout[i] = <<>>

\* a container with a bold paragraph that ends in a plain whitespace run, then
\* a paragraph of mixed runs, has been read
C10_Witness ==
    /\ xdone
    /\ Len(xdoc) = 2
    /\ Len(xdoc[1].runs) = 2
    /\ xdoc[1].runs[1].text = <<"a">> /\ xdoc[1].runs[1].bold = "True"
    /\ xdoc[1].runs[2].text = <<" ">> /\ xdoc[1].runs[2].bold = "None"
    /\ xout[1] = <<"*", "*", "a", "*", "*">>
    /\ Len(xdoc[2].runs) = 1
    /\ xdoc[2].runs[1].text = <<"a">> /\ xdoc[2].runs[1].bold = "False"
    /\ xout[2] = <<"a">>

(***************************************************************************)
(* Claims about the aggregator, checked under SpecAgg.                     *)
(***************************************************************************)
ValidNames == {i \in 1..Len(globList) : PatternMatches(globList[i])}

\* C3: in the aggregate written, the blocks and the footer's identifiers
\* stand for the discovered transcripts in the same order, and a transcript
\* with the smaller number stands strictly before one with the larger.
C3_NumericOrder ==
    apc = "written" =>
        /\ Len(aggregate.blocks) = Cardinality(ValidNames)
        /\ Len(aggregate.ids) = Cardinality(ValidNames)
        /\ aggregate.total = Cardinality(ValidNames)
        /\ \A n \in ValidNames :
             \E i \in 1..Len(aggregate.ids) : aggregate.ids[i] = PatientId(globList[n])
        /\ \A i \in 1..Len(aggregate.ids) :
             /\ acq[i].pid = aggregate.ids[i]
             /\ aggregate.blocks[i] = Block(acq[i].pid, acq[i].content)
        /\ \A i, j \in 1..Len(aggregate.ids) :
             IntOf(Tail(aggregate.ids[i])) < IntOf(Tail(aggregate.ids[j])) => i < j

\* an aggregate of two transcripts the glob gave in descending order
C3_Witness ==
    /\ apc = "written"
    /\ Len(globList) >= 2
    /\ globList[1] = <<"1", "0", "0">>
    /\ globList[2] = <<"0", "0", "2">>
    /\ Len(aggregate.blocks) >= 2

\* C4: every block of the aggregate starts with exactly one delimiter line:
\* its first line is the delimiter of its own transcript, and the delimiter
\* is not met again in the first three lines.
C4_OneDelimiter ==
    \A i \in 1..Len(entries) :
        LET lines == SplitLines(entries[i])
            header == HeaderLine(acq[i].pid)
        IN  /\ Len(lines) >= 1
            /\ lines[1] = header
            /\ \A k \in 2..3 : k <= Len(lines) => lines[k] /= header

\* C9: the text of a transcript is the text of its sidecar whenever the
\* sidecar exists and can be read as UTF-8; otherwise the aggregator goes on
\* to the container and takes what extract_text_from_docx gives.
C9_BackupPreferred ==
    \A i \in 1..Len(acq) :
        LET a == acq[i]
        IN  IF a.backup.exists /\ ~a.backup.ioerror /\ ValidUtf8(a.backup.bytes)
            THEN /\ a.src = "backup"
                 /\ Encode(a.content) = a.backup.bytes
                 /\ i <= Len(entries)
            ELSE /\ a.src = "docx"
                 /\ docAvail => /\ i <= Len(entries)
                                /\ a.content = JoinLines(ExtractLines(a.docx))
                                /\ apc /= "raised"

\* a run took an empty sidecar, fell back to the container for an
\* undecodable one, and wrote the aggregate
C9_Witness ==
    /\ apc = "written"
    /\ Len(acq) = 2
    /\ acq[1].backup = Sidecar(<<>>) /\ acq[1].src = "backup" /\ acq[1].content = <<>>
    /\ acq[2].backup = Sidecar(<<"xFF">>) /\ acq[2].src = "docx"
    /\ acq[2].content = <<"*", "*", "a", "*", "*">>

====
